---- MODULE Spec2Model ----
(***************************************************************************)
(* The EMI calculator of src/emi_app.py: calculate_emi, generate_emi_data, *)
(* format_indian_currency and the Streamlit script that drives them.       *)
(*                                                                         *)
(* Python's float is IEEE-754 binary64.  A float is modelled bit-exactly   *)
(* as sign, integer mantissa and binary exponent; every operation computes *)
(* the exact result and rounds it to nearest, ties to even, as the         *)
(* hardware does.  Mantissas do not fit a 32-bit integer, so naturals are  *)
(* little-endian sequences of 13-bit limbs.                                *)
(***************************************************************************)
EXTENDS Integers, Sequences, FiniteSets, TLC

Max(x, y) == IF x >= y THEN x ELSE y
Min(x, y) == IF x <= y THEN x ELSE y

(***************************************************************************)
(* Naturals of arbitrary size.                                             *)
(***************************************************************************)
Base == 2^13

Limb(a, i) == IF i >= 1 /\ i <= Len(a) THEN a[i] ELSE 0

\* The sequence f as an explicit list of its elements
List(f) == SubSeq(f, 1, Len(f))

RECURSIVE BNormList(_)
BNormList(a) ==
    IF a = <<>> THEN <<>>
    ELSE IF a[Len(a)] = 0 THEN BNormList(SubSeq(a, 1, Len(a) - 1))
    ELSE a

BNorm(a) == BNormList(List(a))

\* Carry propagation over column values s[i..]; a column may be negative
\* (a borrow), the total must not be.
RECURSIVE BCarry(_, _, _)
BCarry(s, i, c) ==
    IF i > Len(s)
    THEN IF c = 0 THEN <<>> ELSE <<c % Base>> \o BCarry(s, i, c \div Base)
    ELSE LET t == s[i] + c
         IN  <<t % Base>> \o BCarry(s, i + 1, t \div Base)

BFromInt(n) == BNorm(BCarry(<<n>>, 1, 0))

RECURSIVE BToInt(_)
BToInt(a) == IF a = <<>> THEN 0 ELSE a[1] + Base * BToInt(Tail(a))

BAdd(a, b) ==
    BNorm(BCarry([i \in 1..Max(Len(a), Len(b)) |-> Limb(a, i) + Limb(b, i)], 1, 0))

\* a - b, for a >= b
BSub(a, b) ==
    BNorm(BCarry([i \in 1..Len(a) |-> a[i] - Limb(b, i)], 1, 0))

RECURSIVE ColSum(_, _, _, _, _)
ColSum(a, b, k, i, hi) ==
    IF i > hi THEN 0 ELSE a[i] * b[k + 1 - i] + ColSum(a, b, k, i + 1, hi)

BMul(a, b) ==
    IF a = <<>> \/ b = <<>> THEN <<>>
    ELSE BNorm(BCarry([k \in 1..(Len(a) + Len(b) - 1) |->
                          ColSum(a, b, k, Max(1, k + 1 - Len(b)), Min(Len(a), k))],
                      1, 0))

RECURSIVE IntBitLen(_)
IntBitLen(n) == IF n = 0 THEN 0 ELSE 1 + IntBitLen(n \div 2)

\* number of bits of a (normalised)
BLen(a) == IF a = <<>> THEN 0 ELSE 13 * (Len(a) - 1) + IntBitLen(a[Len(a)])

\* a * 2^k
BShl(a, k) ==
    LET q == k \div 13
        r == k % 13
    IN  BNorm([j \in 1..(Len(a) + q + 1) |->
                  ((Limb(a, j - q) * 2^r) % Base) + (Limb(a, j - q - 1) \div 2^(13 - r))])

\* floor(a / 2^k)
BShr(a, k) ==
    LET q == k \div 13
        r == k % 13
    IN  BNorm([j \in 1..Max(0, Len(a) - q) |->
                  (Limb(a, j + q) \div 2^r) + ((Limb(a, j + q + 1) % 2^r) * 2^(13 - r))])

\* a mod 2^k = 0
BLowZero(a, k) ==
    LET q == k \div 13
        r == k % 13
    IN  /\ \A i \in 1..Min(q, Len(a)) : a[i] = 0
        /\ Limb(a, q + 1) % 2^r = 0

\* bit i of a (bit 0 is the lowest)
BBit(a, i) == (Limb(a, (i \div 13) + 1) \div 2^(i % 13)) % 2

RECURSIVE BLtFrom(_, _, _)
BLtFrom(a, b, i) ==
    IF i = 0 THEN FALSE
    ELSE IF a[i] # b[i] THEN a[i] < b[i]
    ELSE BLtFrom(a, b, i - 1)

BLt(a, b) == IF Len(a) # Len(b) THEN Len(a) < Len(b) ELSE BLtFrom(a, b, Len(a))

(***************************************************************************)
(* binary64.  A finite nonzero float is (-1)^s * m * 2^e with              *)
(* 2^52 <= m < 2^53 (or m < 2^52 and e = -1074, a subnormal).              *)
(***************************************************************************)
Precision == 53
EMax == 1023
EMin == -1022

Zero == [k |-> "zero", s |-> 0, m |-> <<>>, e |-> 0]
Inf(s) == [k |-> "inf", s |-> s, m |-> <<>>, e |-> 0]
NaN == [k |-> "nan", s |-> 0, m |-> <<>>, e |-> 0]

\* m * 2^e, m already rounded to at most Precision + 1 bits
Pack(s, m, e) ==
    LET Packed(m2, e2) ==
            IF BLen(m2) - 1 + e2 > EMax THEN Inf(s)
            ELSE [k |-> "num", s |-> s, m |-> m2, e |-> e2]
    IN  IF m = <<>> THEN Zero
        ELSE IF BLen(m) > Precision THEN Packed(BShr(m, 1), e + 1)
        ELSE Packed(m, e)

\* The float nearest to (-1)^s * (N * 2^e + a positive amount below 2^e when
\* sticky), ties to even.
FRound(s, N, e, sticky) ==
    LET \* q is N without its sh low bits
        Nearest(sh, q) ==
            LET half == BBit(N, sh - 1) = 1
                rest == sticky \/ ~BLowZero(N, sh - 1)
                up == half /\ (rest \/ BBit(q, 0) = 1)
            IN  Pack(s, IF up THEN BAdd(q, <<1>>) ELSE q, e + sh)
        Drop(sh) ==
            IF sh <= 0 THEN Pack(s, BShl(N, -sh), e + sh)
            ELSE Nearest(sh, BShr(N, sh))
        \* the bits a float of binary exponent E keeps (fewer when subnormal)
        Kept(E) == IF E >= EMin THEN Precision ELSE Precision - (EMin - E)
        Of(L) == Drop(L - Kept(L - 1 + e))
    IN  IF N = <<>> THEN Zero ELSE Of(BLen(N))

\* int -> float (exact below 2^53)
FromInt(n) ==
    IF n = 0 THEN Zero
    ELSE FRound(IF n < 0 THEN 1 ELSE 0, BFromInt(IF n < 0 THEN -n ELSE n), 0, FALSE)

FNeg(x) == IF x.k \in {"num", "inf"} THEN [x EXCEPT !.s = 1 - x.s] ELSE x

\* |a| < |b| for finite nonzero a, b
MagLt(a, b) ==
    LET ea == BLen(a.m) + a.e
        eb == BLen(b.m) + b.e
    IN  IF ea # eb THEN ea < eb
        ELSE IF a.e >= b.e THEN BLt(BShl(a.m, a.e - b.e), b.m)
        ELSE BLt(a.m, BShl(b.m, b.e - a.e))

\* a < b for floats that are not NaN
FLt(a, b) ==
    IF a.k = "zero" THEN b.k # "zero" /\ b.s = 0
    ELSE IF b.k = "zero" THEN a.s = 1
    ELSE IF a.s # b.s THEN a.s = 1
    ELSE IF a.k = "inf" \/ b.k = "inf"
         THEN IF a.s = 0 THEN a.k # "inf" ELSE b.k # "inf"
    ELSE IF a.s = 0 THEN MagLt(a, b) ELSE MagLt(b, a)

FGe(a, b) == a.k # "nan" /\ b.k # "nan" /\ ~FLt(a, b)
FGt(a, b) == a.k # "nan" /\ b.k # "nan" /\ FLt(b, a)
FEq(a, b) == a.k # "nan" /\ a = b

FMul(a, b) ==
    LET s == (a.s + b.s) % 2
    IN  IF a.k = "nan" \/ b.k = "nan" THEN NaN
        ELSE IF a.k = "inf" \/ b.k = "inf"
             THEN IF a.k = "zero" \/ b.k = "zero" THEN NaN ELSE Inf(s)
        ELSE IF a.k = "zero" \/ b.k = "zero" THEN Zero
        ELSE FRound(s, BMul(a.m, b.m), a.e + b.e, FALSE)

\* Magnitudes a.m * 2^a.e + or - b.m * 2^b.e, where a is the larger in
\* magnitude and a.e >= b.e; an operand more than 2 * Precision bits below
\* the other only decides the direction of rounding.
AddMag(s, a, b, minus) ==
    LET d == a.e - b.e
        far == d > 2 * Precision
    IN  FRound(s,
               IF far THEN (IF minus THEN BSub(BShl(a.m, 2), <<1>>) ELSE BShl(a.m, 2))
               ELSE IF minus THEN BSub(BShl(a.m, d), b.m)
               ELSE BAdd(BShl(a.m, d), b.m),
               IF far THEN a.e - 2 ELSE b.e,
               far)

FAdd(a, b) ==
    IF a.k = "nan" \/ b.k = "nan" THEN NaN
    ELSE IF a.k = "inf" THEN (IF b.k = "inf" /\ b.s # a.s THEN NaN ELSE a)
    ELSE IF b.k = "inf" THEN b
    ELSE IF a.k = "zero" THEN b
    ELSE IF b.k = "zero" THEN a
    ELSE IF MagLt(a, b) THEN AddMag(b.s, b, a, a.s # b.s)
    ELSE AddMag(a.s, a, b, a.s # b.s)

FSub(a, b) == FAdd(a, FNeg(b))

\* The low 27 bits and the bits above them, of a natural below 2^54.
Lo27(a) == Limb(a, 1) + Limb(a, 2) * 2^13 + (Limb(a, 3) % 2) * 2^26
Hi27(a) == (Limb(a, 3) \div 2) + Limb(a, 4) * 2^12 + Limb(a, 5) * 2^25

\* Restoring division on (high, low) pairs of 27 bits: n quotient bits of
\* r / d for r < 2 * d, the quotient in a pair of 28 bits.  The tests on qh
\* and on the remainder keep the operands evaluated step by step.
RECURSIVE DivLoop(_, _, _, _, _, _, _)
DivLoop(rh, rl, dh, dl, n, qh, ql) ==
    IF n = 0 \/ qh < 0 THEN [qh |-> qh, ql |-> ql, exact |-> rh = 0 /\ rl = 0]
    ELSE IF rh > dh \/ (rh = dh /\ rl >= dl)
         THEN LET sl == IF rl < dl THEN rl + 2^27 - dl ELSE rl - dl
                  sh == rh - dh - (IF rl < dl THEN 1 ELSE 0)
              IN  DivLoop(2 * sh + ((2 * sl) \div 2^27), (2 * sl) % 2^27, dh, dl, n - 1,
                          2 * qh + ((2 * ql + 1) \div 2^28), (2 * ql + 1) % 2^28)
         ELSE DivLoop(2 * rh + ((2 * rl) \div 2^27), (2 * rl) % 2^27, dh, dl, n - 1,
                      2 * qh + ((2 * ql) \div 2^28), (2 * ql) % 2^28)

\* a / b for b # 0 (the caller raises ZeroDivisionError otherwise)
FDiv(a, b) ==
    LET s == (a.s + b.s) % 2
    IN  IF a.k = "nan" \/ b.k = "nan" THEN NaN
        ELSE IF a.k = "inf" THEN (IF b.k = "inf" THEN NaN ELSE Inf(s))
        ELSE IF b.k = "inf" \/ a.k = "zero" THEN Zero
        ELSE LET n == Precision + 3
                 Quotient(dv, e) ==
                     FRound(s, BAdd(BShl(BFromInt(dv.qh), 28), BFromInt(dv.ql)), e, ~dv.exact)
                 Divide(ma, mb, e) ==
                     Quotient(DivLoop(Hi27(ma), Lo27(ma), Hi27(mb), Lo27(mb), n, 0, 0), e)
                 \* align the mantissas to the same bit length
                 Align(la, lb) ==
                     Divide(BShl(a.m, Max(0, lb - la)), BShl(b.m, Max(0, la - lb)),
                            (a.e - Max(0, lb - la)) - (b.e - Max(0, la - lb)) - (n - 1))
             IN  Align(BLen(a.m), BLen(b.m))

(***************************************************************************)
(* x ** n for a float x > 0 and an int n >= 1.  CPython hands it to the C  *)
(* library's pow, whose result is the exact power rounded to nearest; the  *)
(* power is computed here by squaring, on WorkBits-bit intermediates that  *)
(* are truncated with a sticky flag, and rounded once at the end.  A       *)
(* result above the largest float raises OverflowError.                    *)
(***************************************************************************)
WorkBits == 2 * Precision - 15

HMul(a, b) ==
    LET Truncated(P, sh) ==
            [N |-> BShr(P, sh), e |-> a.e + b.e + sh,
             st |-> a.st \/ b.st \/ ~BLowZero(P, sh)]
        Product(P) == Truncated(P, Max(0, BLen(P) - WorkBits))
    IN  Product(BMul(a.N, b.N))

\* Evaluating Known(v) evaluates v, so that what follows finds its value
\* instead of computing it at the bottom of a deep expression.
Known(v) == v = v

RECURSIVE HPow(_, _)
HPow(x, n) ==
    LET Squared(sq) == CASE Known(sq) -> IF n % 2 = 1 THEN HMul(sq, x) ELSE sq
        Half(h) == CASE Known(h) -> Squared(HMul(h, h))
    IN  IF n = 1 THEN x ELSE Half(HPow(x, n \div 2))

Return(v) == [exc |-> "None", val |-> v]
Raise(e) == [exc |-> e, val |-> NaN]

FPow(x, n) ==
    LET Result(r) == IF r.k = "inf" THEN Raise("OverflowError") ELSE Return(r)
        Rounded(h) == Result(FRound(0, h.N, h.e, h.st))
    IN  Rounded(HPow([N |-> x.m, e |-> x.e, st |-> FALSE], n))

(***************************************************************************)
(* src/emi_app.py                                                          *)
(***************************************************************************)
LAKH == 100000
CRORE == 10000000

\* calculate_emi with "+ 1" for the "- 1" of the denominator
calculate_emi_plus_one(principal, annual_rate, tenure_years) ==
    LET tenure_months == tenure_years * 12
        emi(monthly_rate, growth) ==
            IF growth.exc # "None" THEN growth
            ELSE Return(FDiv(FMul(FMul(FromInt(principal), monthly_rate), growth.val),
                             FAdd(growth.val, FromInt(1))))
        WithRate(monthly_rate) ==
            emi(monthly_rate, FPow(FAdd(FromInt(1), monthly_rate), tenure_months))
    IN  WithRate(FDiv(annual_rate, FromInt(12 * 100)))

\* calculate_emi without the parentheses around the denominator:
\* principal * monthly_rate * growth / growth - 1
calculate_emi_no_parentheses(principal, annual_rate, tenure_years) ==
    LET tenure_months == tenure_years * 12
        emi(monthly_rate, growth) ==
            IF growth.exc # "None" THEN growth
            ELSE Return(FSub(FDiv(FMul(FMul(FromInt(principal), monthly_rate), growth.val),
                                  growth.val),
                             FromInt(1)))
        WithRate(monthly_rate) ==
            emi(monthly_rate, FPow(FAdd(FromInt(1), monthly_rate), tenure_months))
    IN  WithRate(FDiv(annual_rate, FromInt(12 * 100)))

\* calculate_emi with the annual rate taken as a fraction, not a percentage:
\* monthly_rate = annual_rate / 12
calculate_emi_rate_as_fraction(principal, annual_rate, tenure_years) ==
    LET tenure_months == tenure_years * 12
        Quotient(numerator, denominator) ==
            IF denominator.k = "zero" THEN Raise("ZeroDivisionError")
            ELSE Return(FDiv(numerator, denominator))
        emi(monthly_rate, growth) ==
            IF growth.exc # "None" THEN growth
            ELSE Quotient(FMul(FMul(FromInt(principal), monthly_rate), growth.val),
                          FSub(growth.val, FromInt(1)))
        WithRate(monthly_rate) ==
            emi(monthly_rate, FPow(FAdd(FromInt(1), monthly_rate), tenure_months))
    IN  WithRate(FDiv(annual_rate, FromInt(12)))

\* principal is an int, annual_rate a float (or an int, converted alike),
\* tenure_years an int.  The value is what the call returns or raises.
\* growth is (1 + monthly_rate) ** tenure_months, which the expression holds
\* twice.
calculate_emi(principal, annual_rate, tenure_years) ==
    LET tenure_months == tenure_years * 12
        Quotient(numerator, denominator) ==
            IF denominator.k = "zero" THEN Raise("ZeroDivisionError")
            ELSE Return(FDiv(numerator, denominator))
        emi(monthly_rate, growth) ==
            IF growth.exc # "None" THEN growth
            ELSE Quotient(FMul(FMul(FromInt(principal), monthly_rate), growth.val),
                          FSub(growth.val, FromInt(1)))
        WithRate(monthly_rate) ==
            emi(monthly_rate, FPow(FAdd(FromInt(1), monthly_rate), tenure_months))
    IN  WithRate(FDiv(annual_rate, FromInt(12 * 100)))

\* range(lo, hi)
Range(lo, hi) == List([i \in 1..(hi - lo) |-> lo + i - 1])

\* The list comprehension stops at the first call that raises.
generate_emi_data(principal, annual_rate) ==
    LET tenures == Range(2, 31)
        Lists(calls) ==
            LET failed == {i \in 1..Len(tenures) : calls[i].exc # "None"}
            IN  IF failed # {}
                THEN calls[CHOOSE i \in failed : \A j \in failed : i <= j]
                ELSE Return(<<tenures, List([i \in 1..Len(tenures) |-> calls[i].val])>>)
    IN  Lists(List([i \in 1..Len(tenures) |->
                       calculate_emi(principal, annual_rate, tenures[i])]))

(***************************************************************************)
(* f"{x:.2f}": the decimal nearest to the exact value of x with two digits *)
(* after the point, ties to even.                                          *)
(***************************************************************************)
Digit(d) == <<"0", "1", "2", "3", "4", "5", "6", "7", "8", "9">>[d + 1]

\* a mod d and a div d, for a small d
RECURSIVE BModSmall(_, _, _)
BModSmall(a, d, i) ==
    IF i > Len(a) THEN 0 ELSE (BModSmall(a, d, i + 1) * Base + a[i]) % d

BDivSmall(a, d) ==
    BNorm([i \in 1..Len(a) |-> (BModSmall(a, d, i + 1) * Base + a[i]) \div d])

RECURSIVE DecStr(_)
DecStr(a) ==
    IF Len(a) <= 1 /\ Limb(a, 1) < 10 THEN Digit(Limb(a, 1))
    ELSE DecStr(BDivSmall(a, 10)) \o Digit(BModSmall(a, 10, 1))

\* |x| * 100 rounded to the nearest integer, ties to even
Hundredths(x) ==
    LET sh == -x.e
        Nearest(M, q) ==
            LET half == BBit(M, sh - 1) = 1
                rest == ~BLowZero(M, sh - 1)
            IN  IF half /\ (rest \/ BBit(q, 0) = 1) THEN BAdd(q, <<1>>) ELSE q
        Scaled(M) == IF sh <= 0 THEN BShl(M, -sh) ELSE Nearest(M, BShr(M, sh))
    IN  IF x.k = "zero" THEN <<>> ELSE Scaled(BMul(x.m, BFromInt(100)))

Fmt2(x) ==
    IF x.k = "nan" THEN "nan"
    ELSE IF x.k = "inf" THEN (IF x.s = 1 THEN "-inf" ELSE "inf")
    ELSE LET Digits(units, cents) ==
                 (IF x.s = 1 THEN "-" ELSE "") \o DecStr(units) \o "."
                     \o Digit(cents \div 10) \o Digit(cents % 10)
             Split(h) == Digits(BDivSmall(h, 100), BModSmall(h, 100, 1))
         IN  Split(Hundredths(x))

\* format_indian_currency with ">" for the ">=" of the two thresholds
format_indian_currency_exclusive(value) ==
    IF FGt(value, FromInt(10^7)) THEN Fmt2(FDiv(value, FromInt(10^7))) \o " Cr"
    ELSE IF FGt(value, FromInt(10^5)) THEN Fmt2(FDiv(value, FromInt(10^5))) \o " L"
    ELSE Fmt2(FDiv(value, FromInt(10^3))) \o " K"

\* value is a float; a caller holding an int passes FromInt of it, which is
\* what the comparison and the division make of an int.
format_indian_currency(value) ==
    IF FGe(value, FromInt(10^7)) THEN Fmt2(FDiv(value, FromInt(10^7))) \o " Cr"
    ELSE IF FGe(value, FromInt(10^5)) THEN Fmt2(FDiv(value, FromInt(10^5))) \o " L"
    ELSE Fmt2(FDiv(value, FromInt(10^3))) \o " K"

\* int(x): x truncated towards zero, for |x| < 2^31
FTrunc(x) ==
    IF x.k = "zero" THEN 0
    ELSE LET n == BToInt(IF x.e >= 0 THEN BShl(x.m, x.e) ELSE BShr(x.m, -x.e))
         IN  IF x.s = 1 THEN -n ELSE n

\* math.ceil(x), for |x| < 2^31
FCeil(x) ==
    IF x.k = "zero" THEN 0
    ELSE LET whole == x.e >= 0 \/ BLowZero(x.m, -x.e)
         IN  IF x.s = 1 \/ whole THEN FTrunc(x) ELSE FTrunc(x) + 1

\* max(xs): the first of the largest elements
RECURSIVE MaxFrom(_, _, _)
MaxFrom(xs, i, best) ==
    IF i > Len(xs) THEN best
    ELSE IF FGt(xs[i], best) THEN MaxFrom(xs, i + 1, xs[i])
    ELSE MaxFrom(xs, i + 1, best)

max(xs) == MaxFrom(xs, 2, xs[1])

\* The float a decimal literal n/d denotes (8.5 is Dec(85, 10)): the float
\* nearest to the quotient.
Dec(n, d) == FDiv(FromInt(n), FromInt(d))

(***************************************************************************)
(* The Streamlit script, lines 68-157.  A run executes it from top to      *)
(* bottom; each widget call returns a value of the widget's domain that    *)
(* the user has chosen.  The choices explored are the sets below.          *)
(***************************************************************************)
HousePriceMin == 2 * CRORE
HousePriceMax == 10 * CRORE
HousePriceStep == 20 * LAKH
HousePriceDefault == 3 * CRORE
LoanRatioMin == 10
LoanRatioMax == 100
LoanRatioStep == 5
LoanRatioDefault == 80
LoanAmountMin == 50 * LAKH
LoanAmountMax == 10 * CRORE
\* the rate widgets, in tenths of a percent: 5.0 to 15.0, 8.5 by default
RateMinTenths == 50
RateMaxTenths == 150
RateDefaultTenths == 85

SliderValues(lo, hi, step) == {lo + i * step : i \in 0..((hi - lo) \div step)}

HouseChoices ==
    {HousePriceDefault, HousePriceMax}
        \cap SliderValues(HousePriceMin, HousePriceMax, HousePriceStep)
RatioChoices ==
    {LoanRatioMin, LoanRatioDefault, LoanRatioMax}
        \cap SliderValues(LoanRatioMin, LoanRatioMax, LoanRatioStep)
\* what the user may type into the loan amount instead of the default
LoanAmountChoices == {LoanAmountMin}
RateChoices == {RateMinTenths, RateDefaultTenths, RateMaxTenths}

VARIABLES
    pc,                       \* the statement the run is at
    house_price,              \* int
    loan_ratio,               \* int
    calculated_loan_amount,   \* float
    sidebar,                  \* the amounts written to the sidebar
    principal,                \* int
    annual_rate_input,        \* float: what the rate number input holds
    annual_rate,              \* float
    annual_rate_slider,       \* float
    tenures, emis,            \* the lists generate_emi_data returned
    Y_AXIS_TICKS, ticktext,   \* the tick values and their labels
    page,                     \* the values written above the chart
    call,                     \* function harness: the call made
    call2                     \* function harness: the call it is compared to

vars == <<pc, house_price, loan_ratio, calculated_loan_amount, sidebar,
          principal, annual_rate_input, annual_rate, annual_rate_slider, tenures, emis,
          Y_AXIS_TICKS, ticktext, page, call, call2>>

appVars == <<pc, house_price, loan_ratio, calculated_loan_amount, sidebar,
             principal, annual_rate_input, annual_rate, annual_rate_slider, tenures, emis,
             Y_AXIS_TICKS, ticktext, page>>

NoCall == [fn |-> "none", args |-> <<>>, out |-> Raise("none")]
NoCall2 == [kind |-> "none", args |-> <<>>, out |-> Raise("none"), product |-> Zero]

Init ==
    /\ pc = "start"
    /\ house_price = 0
    /\ loan_ratio = 0
    /\ calculated_loan_amount = Zero
    /\ sidebar = <<>>
    /\ principal = 0
    /\ annual_rate_input = Zero
    /\ annual_rate = Zero
    /\ annual_rate_slider = Zero
    /\ tenures = <<>>
    /\ emis = <<>>
    /\ Y_AXIS_TICKS = <<>>
    /\ ticktext = <<>>
    /\ page = <<>>
    /\ call = NoCall
    /\ call2 = NoCall2

\* lines 80-86
HousePriceSlider ==
    /\ pc = "start"
    /\ \E h \in HouseChoices : house_price' = h
    /\ pc' = "loan_ratio"
    /\ UNCHANGED <<loan_ratio, calculated_loan_amount, sidebar, principal, annual_rate_input,
                   annual_rate, annual_rate_slider, tenures, emis, Y_AXIS_TICKS, ticktext, page,
                   call, call2>>

\* lines 89-91
LoanRatioSlider ==
    /\ pc = "loan_ratio"
    /\ \E l \in RatioChoices : loan_ratio' = l
    /\ pc' = "derive"
    /\ UNCHANGED <<house_price, calculated_loan_amount, sidebar, principal, annual_rate_input,
                   annual_rate, annual_rate_slider, tenures, emis, Y_AXIS_TICKS, ticktext, page,
                   call, call2>>

\* house_price * (loan_ratio / 100)
LoanAmount(price, ratio) == FMul(FromInt(price), FDiv(FromInt(ratio), FromInt(100)))

\* lines 94-100
DeriveLoanAmount ==
    /\ pc = "derive"
    /\ calculated_loan_amount' = LoanAmount(house_price, loan_ratio)
    /\ sidebar' = <<format_indian_currency(
                        FSub(FromInt(house_price), calculated_loan_amount')),
                    format_indian_currency(calculated_loan_amount')>>
    /\ pc' = "principal"
    /\ UNCHANGED <<house_price, loan_ratio, principal, annual_rate_input, annual_rate,
                   annual_rate_slider, tenures, emis, Y_AXIS_TICKS, ticktext, page, call, call2>>

\* lines 103-109.  st.number_input raises when its default lies outside
\* [min_value, max_value]; the script stops there.
LoanAmountInput ==
    /\ pc = "principal"
    /\ LET value == FTrunc(calculated_loan_amount)
       IN  IF value < LoanAmountMin \/ value > LoanAmountMax
           THEN pc' = "exception" /\ principal' = principal
           ELSE /\ \E p \in {value} \cup LoanAmountChoices : principal' = p
                /\ pc' = "annual_rate"
    /\ UNCHANGED <<house_price, loan_ratio, calculated_loan_amount, sidebar, annual_rate_input,
                   annual_rate, annual_rate_slider, tenures, emis, Y_AXIS_TICKS, ticktext, page,
                   call, call2>>

\* lines 119-121
RateNumberInput ==
    /\ pc = "annual_rate"
    /\ \E a \in RateChoices : annual_rate_input' = Dec(a, 10)
    /\ annual_rate' = annual_rate_input'
    /\ pc' = "annual_rate_slider"
    /\ UNCHANGED <<house_price, loan_ratio, calculated_loan_amount, sidebar, principal,
                   annual_rate_slider, tenures, emis, Y_AXIS_TICKS, ticktext, page, call, call2>>

\* lines 122-124
RateSlider ==
    /\ pc = "annual_rate_slider"
    /\ \E r \in RateChoices : annual_rate_slider' = Dec(r, 10)
    /\ pc' = "merge"
    /\ UNCHANGED <<house_price, loan_ratio, calculated_loan_amount, sidebar, principal,
                   annual_rate_input, annual_rate, tenures, emis, Y_AXIS_TICKS, ticktext, page,
                   call, call2>>

\* the merge the other way round: the number input overrides the slider
MergedRate_input_first(slider, input) == IF ~FEq(slider, input) THEN input ELSE slider

\* annual_rate_slider if annual_rate_slider != annual_rate else annual_rate
MergedRate(slider, input) == IF ~FEq(slider, input) THEN slider ELSE input

\* line 125
MergeRate ==
    /\ pc = "merge"
    /\ annual_rate' = MergedRate(annual_rate_slider, annual_rate)
    /\ pc' = "generate"
    /\ UNCHANGED <<house_price, loan_ratio, calculated_loan_amount, sidebar, principal,
                   annual_rate_input, annual_rate_slider, tenures, emis, Y_AXIS_TICKS, ticktext,
                   page, call, call2>>

\* line 128
GenerateData ==
    /\ pc = "generate"
    /\ \E r \in {generate_emi_data(principal, annual_rate)} :
           IF r.exc # "None"
           THEN pc' = "exception" /\ UNCHANGED <<tenures, emis>>
           ELSE tenures' = r.val[1] /\ emis' = r.val[2] /\ pc' = "ticks"
    /\ UNCHANGED <<house_price, loan_ratio, calculated_loan_amount, sidebar, principal,
                   annual_rate_input, annual_rate, annual_rate_slider, Y_AXIS_TICKS, ticktext,
                   page, call, call2>>

\* the ticks without the "+ 1" of the range
AxisTicks_one_short(es) ==
    LET Ticks(r) == List([j \in 1..Len(r) |-> FMul(FromInt(r[j]), FromInt(10^5))])
    IN  Ticks(Range(1, FCeil(FDiv(max(es), FromInt(10^5)))))

\* [i * 1e5 for i in range(1, math.ceil(max(emis) / 1e5) + 1)]
AxisTicks(es) ==
    LET Ticks(r) == List([j \in 1..Len(r) |-> FMul(FromInt(r[j]), FromInt(10^5))])
    IN  Ticks(Range(1, FCeil(FDiv(max(es), FromInt(10^5))) + 1))

\* ticktext=[format_indian_currency(tick) for tick in Y_AXIS_TICKS]
TickText(ticks) == List([j \in 1..Len(ticks) |-> format_indian_currency(ticks[j])])

\* lines 135-147
BuildTicks ==
    /\ pc = "ticks"
    /\ Y_AXIS_TICKS' = AxisTicks(emis)
    /\ ticktext' = TickText(Y_AXIS_TICKS')
    /\ pc' = "display"
    /\ UNCHANGED <<house_price, loan_ratio, calculated_loan_amount, sidebar, principal,
                   annual_rate_input, annual_rate, annual_rate_slider, tenures, emis, page, call,
                   call2>>

\* lines 151-157: the values the two headings show
Display ==
    /\ pc = "display"
    /\ page' = <<<<format_indian_currency(FromInt(house_price)), loan_ratio>>,
                 <<format_indian_currency(FromInt(principal)), annual_rate>>>>
    /\ pc' = "done"
    /\ UNCHANGED <<house_price, loan_ratio, calculated_loan_amount, sidebar, principal,
                   annual_rate_input, annual_rate, annual_rate_slider, tenures, emis,
                   Y_AXIS_TICKS, ticktext, call, call2>>

\* The user touches a widget (or reloads after the exception): Streamlit
\* runs the script again from the top.
Rerun ==
    /\ pc \in {"done", "exception"}
    /\ pc' = "start"
    /\ house_price' = 0
    /\ loan_ratio' = 0
    /\ calculated_loan_amount' = Zero
    /\ sidebar' = <<>>
    /\ principal' = 0
    /\ annual_rate_input' = Zero
    /\ annual_rate' = Zero
    /\ annual_rate_slider' = Zero
    /\ tenures' = <<>>
    /\ emis' = <<>>
    /\ Y_AXIS_TICKS' = <<>>
    /\ ticktext' = <<>>
    /\ page' = <<>>
    /\ UNCHANGED <<call, call2>>

Next ==
    \/ HousePriceSlider
    \/ LoanRatioSlider
    \/ DeriveLoanAmount
    \/ LoanAmountInput
    \/ RateNumberInput
    \/ RateSlider
    \/ MergeRate
    \/ GenerateData
    \/ BuildTicks
    \/ Display
    \/ Rerun

Spec == Init /\ [][Next]_vars

(***************************************************************************)
(* The three functions called on their own.  call holds a call and what it *)
(* returned or raised; call2 holds a second call made to compare with it.  *)
(***************************************************************************)
MaxTenure == 30     \* tenure_years of a call ranges over 1..MaxTenure
MaxGap == 2         \* the second call's tenure is longer by 1..MaxGap years
MaxFactor == 3      \* the second call's principal is 2..MaxFactor times the first

MinRate == Dec(RateMinTenths, 10)
MaxRate == Dec(RateMaxTenths, 10)
\* about 1e-15
TinyRate == FDiv(Dec(1, 10^9), FromInt(10^6))

Principals == {1, 2400000, 5000000}
Rates == {Zero, TinyRate, MinRate, Dec(RateDefaultTenths, 10), MaxRate, FromInt(12000)}
Amounts == {0, 125, 5000, 5005, 99999, 100000, 250000, 9999999, 10000000,
            10150000, 12500000, 100000000}

CallCalculateEmi ==
    /\ call = NoCall
    /\ \E P \in Principals, R \in Rates, T \in 1..MaxTenure :
           call' = [fn |-> "calculate_emi", args |-> <<P, R, T>>,
                    out |-> calculate_emi(P, R, T)]
    /\ UNCHANGED <<call2, appVars>>

\* the same principal and rate over a longer tenure
CallAgainLonger ==
    /\ call.fn = "calculate_emi"
    /\ call2 = NoCall2
    /\ \E T2 \in (call.args[3] + 1)..Min(call.args[3] + MaxGap, MaxTenure) :
           call2' = [kind |-> "longer", args |-> <<call.args[1], call.args[2], T2>>,
                     out |-> calculate_emi(call.args[1], call.args[2], T2),
                     product |-> Zero]
    /\ UNCHANGED <<call, appVars>>

\* k times the principal, and k times what the first call returned
CallAgainScaled ==
    /\ call.fn = "calculate_emi"
    /\ call2 = NoCall2
    /\ \E k \in 2..MaxFactor :
           call2' = [kind |-> "scaled",
                     args |-> <<k * call.args[1], call.args[2], call.args[3]>>,
                     out |-> calculate_emi(k * call.args[1], call.args[2], call.args[3]),
                     product |-> FMul(FromInt(k), call.out.val)]
    /\ UNCHANGED <<call, appVars>>

\* generate_emi_data, and calculate_emi for each of the tenures 2..30
CallGenerateEmiData ==
    /\ call = NoCall
    /\ \E P \in Principals, R \in Rates :
           /\ call' = [fn |-> "generate_emi_data", args |-> <<P, R>>,
                       out |-> generate_emi_data(P, R)]
           /\ call2' = [kind |-> "each", args |-> <<P, R>>,
                        out |-> List([i \in 1..29 |-> calculate_emi(P, R, i + 1)]),
                        product |-> Zero]
    /\ UNCHANGED appVars

CallFormat ==
    /\ call = NoCall
    /\ \E v \in Amounts :
           call' = [fn |-> "format_indian_currency", args |-> <<v>>,
                    out |-> Return(format_indian_currency(FromInt(v)))]
    /\ UNCHANGED <<call2, appVars>>

Forget ==
    /\ call # NoCall
    /\ call' = NoCall
    /\ call2' = NoCall2
    /\ UNCHANGED appVars

FnNext ==
    \/ CallCalculateEmi
    \/ CallAgainLonger
    \/ CallAgainScaled
    \/ CallGenerateEmiData
    \/ CallFormat
    \/ Forget

FnSpec == Init /\ [][FnNext]_vars

(***************************************************************************)
(* The claims.                                                             *)
(***************************************************************************)
Positive(x) == FGt(x, Zero)
InRange(x) == FGe(x, MinRate) /\ FGe(MaxRate, x)
Returned(c) == c.out.exc = "None"

\* C1: for every principal P > 0 and annual rate R > 0, generate_emi_data
\* returns two lists of 29 entries, the tenures 2, 3, ..., 30 in ascending
\* order and, at each index, the EMI calculate_emi gives for that tenure.
C1_GenerateReturnsSeries ==
    (call.fn = "generate_emi_data" /\ call.args[1] > 0 /\ Positive(call.args[2])) =>
        /\ Returned(call)
        /\ Len(call.out.val[1]) = 29
        /\ Len(call.out.val[2]) = 29
        /\ \A i \in 1..29 : call.out.val[1][i] = i + 1
        /\ \A i \in 1..29 : call2.out[i] = Return(call.out.val[2][i])

\* C2: for every P > 0, R > 0 and T > 0, calculate_emi returns a strictly
\* positive finite number.
C2_PositiveFinite ==
    (call.fn = "calculate_emi" /\ call.args[1] > 0 /\ Positive(call.args[2])
        /\ call.args[3] > 0) =>
        /\ Returned(call)
        /\ call.out.val.k = "num"
        /\ call.out.val.s = 0

\* C3: with the annual rate 0, calculate_emi raises nothing and returns NaN
\* or an infinity, and generate_emi_data passes such values on in its list.
C3_ZeroRateReturnsNonFinite ==
    /\ (call.fn = "calculate_emi" /\ call.args[2] = Zero) =>
           Returned(call) /\ call.out.val.k \in {"nan", "inf"}
    /\ (call.fn = "generate_emi_data" /\ call.args[2] = Zero) =>
           /\ Returned(call)
           /\ \A i \in 1..Len(call.out.val[2]) : call.out.val[2][i].k \in {"nan", "inf"}

\* C4 as stated: for every P > 0 and R > 0 and tenures T1 < T2, the EMI for
\* T1 is strictly greater than the EMI for T2 (stated of the calls that
\* return), and the list of generate_emi_data is strictly decreasing.
C4_StrictlyDecreasing ==
    /\ (call2.kind = "longer" /\ Positive(call.args[2]) /\ Returned(call)
            /\ Returned(call2)) =>
           FGt(call.out.val, call2.out.val)
    /\ (call.fn = "generate_emi_data" /\ Positive(call.args[2]) /\ Returned(call)) =>
           \A i \in 1..29 : \A j \in (i + 1)..29 :
               FGt(call.out.val[2][i], call.out.val[2][j])

\* C4 amended: for an annual rate in [5.0, 15.0], a principal P > 0 and
\* tenures T1 < T2 <= 30, both calls return and the EMI for T1 is strictly
\* greater than the EMI for T2; the list generate_emi_data returns is
\* strictly decreasing along its 29 entries.
C4_StrictlyDecreasingInRange ==
    /\ (call2.kind = "longer" /\ InRange(call.args[2])) =>
           /\ Returned(call)
           /\ Returned(call2)
           /\ FGt(call.out.val, call2.out.val)
    /\ (call.fn = "generate_emi_data" /\ InRange(call.args[2])) =>
           /\ Returned(call)
           /\ \A i \in 1..29 : \A j \in (i + 1)..29 :
                  FGt(call.out.val[2][i], call.out.val[2][j])

C4_Witness ==
    /\ call2.kind = "longer"
    /\ call.args = <<2400000, MaxRate, 29>>
    /\ call2.args[3] = 30
    /\ FGt(call.out.val, call2.out.val)

\* C5 as stated: for every k > 0, P > 0, R > 0 and T > 0,
\* calculate_emi(k * P, R, T) = k * calculate_emi(P, R, T) (stated of the
\* calls that return).
C5_Linear ==
    (call2.kind = "scaled" /\ Positive(call.args[2]) /\ Returned(call)
        /\ Returned(call2)) =>
        call2.out.val = call2.product

\* 2^-50
RelativeTolerance == Pack(0, BShl(<<1>>, 52), -102)

FAbs(x) == IF x.s = 1 THEN FNeg(x) ELSE x

\* C5 amended: for an annual rate in [5.0, 15.0], integers k > 0 and P > 0
\* and a tenure T <= 30, both calls return and calculate_emi(k * P, R, T)
\* differs from k * calculate_emi(P, R, T) by at most 2^-50 of the latter.
C5_LinearWithinRounding ==
    (call2.kind = "scaled" /\ InRange(call.args[2])) =>
        /\ Returned(call)
        /\ Returned(call2)
        /\ FGe(FMul(call2.product, RelativeTolerance),
               FAbs(FSub(call2.out.val, call2.product)))

C5_Witness ==
    /\ call2.kind = "scaled"
    /\ call.args = <<1, MinRate, 1>>
    /\ call2.args[1] = 3
    /\ call2.out.val # call2.product
    /\ FGe(FMul(call2.product, RelativeTolerance),
           FAbs(FSub(call2.out.val, call2.product)))

\* C6 as stated: for principal 2,400,000, annual rate 8.5 and tenure 20,
\* calculate_emi returns a value within 1 of 20,847.
C6_Within1Of20847 ==
    (call.fn = "calculate_emi" /\ call.args = <<2400000, Dec(85, 10), 20>>) =>
        /\ Returned(call)
        /\ FGe(call.out.val, FromInt(20847 - 1))
        /\ FGe(FromInt(20847 + 1), call.out.val)

\* C6 amended: for principal 2,400,000, annual rate 8.5 and tenure 20,
\* calculate_emi returns a value within 1 of 20,828 (it is 20,827.76).
C6_Within1Of20828 ==
    (call.fn = "calculate_emi" /\ call.args = <<2400000, Dec(85, 10), 20>>) =>
        /\ Returned(call)
        /\ FGe(call.out.val, FromInt(20828 - 1))
        /\ FGe(FromInt(20828 + 1), call.out.val)

C6_Witness ==
    /\ call.fn = "calculate_emi"
    /\ call.args = <<2400000, Dec(85, 10), 20>>
    /\ Returned(call)
    /\ FTrunc(call.out.val) = 20827

\* The unit of an amount v, chosen by comparing integers
UnitOf(v) == IF v >= 10^7 THEN 10^7 ELSE IF v >= 10^5 THEN 10^5 ELSE 10^3
SuffixOf(v) == IF v >= 10^7 THEN " Cr" ELSE IF v >= 10^5 THEN " L" ELSE " K"
\* n hundredths, written with two decimals
TwoDecimals(n) ==
    ToString(n \div 100) \o "." \o ToString((n % 100) \div 10) \o ToString(n % 10)

\* C7: format_indian_currency returns for every amount v >= 0: v / 1e7 to
\* two decimals and " Cr" when v >= 1e7, otherwise v / 1e5 to two decimals
\* and " L" when v >= 1e5, otherwise v / 1e3 to two decimals and " K"; to two
\* decimals is the nearest hundredth (either neighbour when v lies halfway).
\* 12,500,000 gives "1.25 Cr", 250,000 gives "2.50 L", 5,000 gives "5.00 K".
C7_UnitByThreshold ==
    call.fn = "format_indian_currency" =>
        LET v == call.args[1]
            hundredth == UnitOf(v) \div 100
            below == v \div hundredth
            rest == v % hundredth
        IN  /\ Returned(call)
            /\ 2 * rest < hundredth => call.out.val = TwoDecimals(below) \o SuffixOf(v)
            /\ 2 * rest > hundredth => call.out.val = TwoDecimals(below + 1) \o SuffixOf(v)
            /\ 2 * rest = hundredth =>
                   call.out.val \in {TwoDecimals(below) \o SuffixOf(v),
                                     TwoDecimals(below + 1) \o SuffixOf(v)}
            /\ v = 12500000 => call.out.val = "1.25 Cr"
            /\ v = 250000 => call.out.val = "2.50 L"
            /\ v = 5000 => call.out.val = "5.00 K"
            /\ v = 10^7 => call.out.val = "1.00 Cr"
            /\ v = 10^5 => call.out.val = "1.00 L"

C7_Witness ==
    /\ call.fn = "format_indian_currency"
    /\ call.args = <<10^7>>
    /\ call.out = Return("1.00 Cr")

\* C8: for every house price and loan-to-value ratio the sliders allow, the
\* derived principal, truncated to an integer, lies within the bounds of the
\* loan amount input, [50 lakh, 10 crore], whose default it is; and the
\* principal handed to generate_emi_data lies within them.
C8_DefaultWithinBounds ==
    /\ pc = "principal" =>
           /\ FTrunc(calculated_loan_amount) >= LoanAmountMin
           /\ FTrunc(calculated_loan_amount) <= LoanAmountMax
    /\ pc = "generate" => principal >= LoanAmountMin /\ principal <= LoanAmountMax

\* C9: the rate handed to generate_emi_data is the slider's value when the
\* slider and the number input differ and the number input's (the same)
\* value otherwise: it always equals the slider's value and lies in
\* [5.0, 15.0], so it is never 0.
C9_SliderOverrides ==
    pc = "generate" =>
        /\ annual_rate = (IF annual_rate_slider # annual_rate_input
                          THEN annual_rate_slider ELSE annual_rate_input)
        /\ annual_rate = annual_rate_slider
        /\ InRange(annual_rate)
        /\ annual_rate # Zero

C9_Witness ==
    /\ pc = "generate"
    /\ annual_rate_input = MinRate
    /\ annual_rate_slider = MaxRate
    /\ annual_rate = MaxRate

\* The label of tick i, the amount i * 10^5
TickLabel(i) ==
    IF i >= 100 THEN TwoDecimals(i) \o " Cr" ELSE TwoDecimals(100 * i) \o " L"

\* C10: the tick values of a series are i * 10^5 for i = 1..n with n >= 1;
\* the largest tick is at least the largest EMI, which is the EMI at
\* tenure 2, and exceeds it by less than 10^5; the labels are the ticks
\* formatted in order, each ending in " L" or " Cr".
C10_Ticks ==
    pc \in {"display", "done"} =>
        LET n == Len(Y_AXIS_TICKS)
        IN  /\ n >= 1
            /\ \A i \in 1..n : Y_AXIS_TICKS[i] = FromInt(i * 10^5)
            /\ tenures[1] = 2
            /\ \A j \in 1..Len(emis) : FGe(emis[1], emis[j])
            /\ FGe(Y_AXIS_TICKS[n], emis[1])
            /\ FLt(FromInt((n - 1) * 10^5), emis[1])
            /\ Len(ticktext) = n
            /\ \A i \in 1..n : ticktext[i] = TickLabel(i)

C10_Witness ==
    /\ pc = "display"
    /\ principal = LoanAmountMax
    /\ annual_rate = MaxRate
    /\ Len(Y_AXIS_TICKS) = 49
    /\ ticktext[49] = "49.00 L"
    /\ FLt(FromInt(48 * 10^5), emis[1])

====
